---- MODULE Spec2Model ----
(***************************************************************************)
(* Model of the enumizer crate: the three macro_rules! generators          *)
(* alias_option!, alias_result! and alias_either! (their rule chains and   *)
(* what the emitting rule emits), and the methods, conversions and Try     *)
(* protocol of the types they generate.                                    *)
(*                                                                         *)
(* Identifiers, method names and panic messages are sequences of           *)
(* one-character strings, so that lower-casing and concatenation are       *)
(* computed and not assumed.                                               *)
(***************************************************************************)
EXTENDS Integers, Sequences, FiniteSets, TLC

\* ------------------------------------------------------------------ bounds
MaxPayload == 2
MaxTraits == 1

Payloads == 0..MaxPayload

\* ------------------------------------------------------------- identifiers
Found == <<"F", "o", "u", "n", "d">>
Good == <<"G", "o", "o", "d">>
Bad == <<"B", "a", "d">>

Hit == <<"H", "i", "t">>
HIT == <<"H", "I", "T">>
HitAnd == <<"H", "i", "t", "_", "a", "n", "d">>

\* any two distinct identifiers given as the variants of one invocation
AnyIdents == {Found, Bad, Hit, HIT, HitAnd}
AnyPairs == {p \in AnyIdents \X AnyIdents : p[1] # p[2]}

\* variant identifier pairs given to one invocation ($some/$none, $ok/$err, $left/$right)
VariantPairs == {<<Found, Bad>>, <<Good, Bad>>, <<Bad, Good>>}

\* char::to_lowercase as paste's `:lower` modifier applies it
LowerTable ==
    [A |-> "a", B |-> "b", D |-> "d", F |-> "f", G |-> "g", H |-> "h", I |-> "i",
     M |-> "m", S |-> "s", T |-> "t"]

LowerChar(c) == IF c \in DOMAIN LowerTable THEN LowerTable[c] ELSE c

Lower(id) == [i \in 1..Len(id) |-> LowerChar(id[i])]

\* the text occurs in the message as a contiguous run of characters
Contains(msg, text) ==
    \E i \in 1..(Len(msg) - Len(text) + 1) : SubSeq(msg, i, i + Len(text) - 1) = text

\* ------------------------------------------------- macro invocation tokens
TraitNames == {"Debug", "PartialEq", "PartialOrd", "Hash"}

TraitLists == UNION {[1..n -> TraitNames] : n \in 0..MaxTraits}

DefaultTraits == <<"Debug", "Clone", "Copy", "PartialEq", "Eq", "Ord", "PartialOrd", "Hash">>

KwTraits == [k |-> "traits:", v |-> <<>>]
Comma == [k |-> ",", v |-> <<>>]
List(l) == [k |-> "list", v |-> l]
Ident(i) == [k |-> "ident", v |-> <<i>>]

ImplementTry == Ident("implement_try")

FlagIdents == {"implement_try", "other"}

\* what may follow `$type_name, $a, $b` in an invocation; separators between
\* arguments are implicit, Comma is a trailing comma
Tails ==
    {<<>>, <<Comma>>}
    \cup {<<Ident(i)>> : i \in FlagIdents}
    \cup {<<KwTraits, List(l)>> : l \in TraitLists}
    \cup {<<KwTraits, List(l), Ident(i)>> : l \in TraitLists, i \in FlagIdents}
    \cup {<<List(l)>> : l \in TraitLists}
    \cup {<<List(l), Comma>> : l \in TraitLists}
    \cup {<<List(l), Ident(i)>> : l \in TraitLists, i \in FlagIdents}

Families == {"option", "result", "either"}

VARIABLES family, variants, invocation, tail, pc, emitted, val, canon, res, try

vars == <<family, variants, invocation, tail, pc, emitted, val, canon, res, try>>

\* ------------------------------------------------------- rule matchers
IsBare(t) == t = <<>>
IsTraits(t) == Len(t) = 2 /\ t[1] = KwTraits /\ t[2].k = "list"
IsTry(t) == t = <<ImplementTry>>
IsTraitsTry(t) == Len(t) = 3 /\ t[1] = KwTraits /\ t[2].k = "list" /\ t[3] = ImplementTry
IsList(t) == Len(t) = 1 /\ t[1].k = "list"
IsListFlag(t) == Len(t) = 2 /\ t[1].k = "list" /\ t[2].k \in {",", "ident"}

\* $($implement_try:ident)? matched an identifier
HasFlag(t) == t[2].k = "ident"

\* ------------------------------------------------ synthesized method names
PreIs == <<"i", "s", "_">>
PreAs == <<"a", "s", "_">>
PreMap == <<"m", "a", "p", "_">>
PreUnwrap == <<"u", "n", "w", "r", "a", "p", "_">>
SufMut == <<"_", "m", "u", "t">>
SufAnd == <<"_", "a", "n", "d">>
SufOr == <<"_", "o", "r">>
NameMap == <<"m", "a", "p">>
NameMapErr == <<"m", "a", "p", "_", "e", "r", "r">>
NameUnwrap == <<"u", "n", "w", "r", "a", "p">>
NameUnwrapOr == <<"u", "n", "w", "r", "a", "p", "_", "o", "r">>
NameUnwrapOrElse == <<"u", "n", "w", "r", "a", "p", "_", "o", "r", "_", "e", "l", "s", "e">>

\* the methods of `impl<T> $type_name<T>` of alias_option!, in source order
OptionMethods(some, none) ==
    << PreIs \o Lower(none), PreIs \o Lower(some),
      PreIs \o Lower(some) \o SufAnd, PreIs \o Lower(none) \o SufOr,
      PreAs \o Lower(some), PreAs \o Lower(some) \o SufMut,
      NameMap, NameUnwrap, NameUnwrapOr, NameUnwrapOrElse >>

\* the methods of `impl<T, E> $type_name<T, E>` of alias_result!
ResultMethods(ok, err) ==
    << PreIs \o Lower(ok), PreIs \o Lower(err),
      PreAs \o Lower(ok), PreAs \o Lower(ok) \o SufMut,
      PreAs \o Lower(err), PreAs \o Lower(err) \o SufMut,
      NameMap, NameMapErr, NameUnwrap, NameUnwrapOr, NameUnwrapOrElse >>

\* the methods of `impl<L, R> $type_name<L, R>` of alias_either!
EitherMethods(left, right) ==
    << PreIs \o Lower(left), PreIs \o Lower(right),
      PreAs \o Lower(left), PreAs \o Lower(left) \o SufMut,
      PreAs \o Lower(right), PreAs \o Lower(right) \o SufMut,
      PreMap \o Lower(left), PreMap \o Lower(right),
      PreUnwrap \o Lower(left), PreUnwrap \o Lower(right) >>

\* trait impls emitted next to the inherent impl
ConversionImpls == {"From<Canonical>", "Into<Canonical>"}
TryImpls == {"Try", "FromResidual"}

NotEmitted == [derive |-> <<>>, decl |-> <<>>, methods |-> <<>>, impls |-> {}]
NoValue == [tag |-> <<>>, payload |-> <<>>]
NoRes == [op |-> "none"]
NoTry == [pc |-> "idle"]

\* the emitting rule of alias_option!: enum with $none_variant first, the
\* inherent impl, the two From impls and, when the flag matched, Try
OptionEmitted(t) ==
    [derive |-> t[1].v,
     decl |-> <<[name |-> variants[2], arity |-> 0], [name |-> variants[1], arity |-> 1]>>,
     methods |-> OptionMethods(variants[1], variants[2]),
     impls |-> ConversionImpls \cup (IF HasFlag(t) THEN TryImpls ELSE {})]

\* faulty variant of ResultEmitted: the From<$type_name> for Result impl is missing
ResultEmittedNoInto(t) ==
    [derive |-> t[1].v,
     decl |-> <<[name |-> variants[1], arity |-> 1], [name |-> variants[2], arity |-> 1]>>,
     methods |-> ResultMethods(variants[1], variants[2]),
     impls |-> {"From<Canonical>"} \cup (IF HasFlag(t) THEN TryImpls ELSE {})]

\* the emitting rule of alias_result!
ResultEmitted(t) ==
    [derive |-> t[1].v,
     decl |-> <<[name |-> variants[1], arity |-> 1], [name |-> variants[2], arity |-> 1]>>,
     methods |-> ResultMethods(variants[1], variants[2]),
     impls |-> ConversionImpls \cup (IF HasFlag(t) THEN TryImpls ELSE {})]

\* the emitting rule of alias_either!: no From impls, no Try
EitherEmitted(t) ==
    [derive |-> t[1].v,
     decl |-> <<[name |-> variants[1], arity |-> 1], [name |-> variants[2], arity |-> 1]>>,
     methods |-> EitherMethods(variants[1], variants[2]),
     impls |-> {}]

\* ------------------------------------------------------------------- Init
Init ==
    /\ family \in Families
    /\ variants \in VariantPairs
    /\ invocation \in Tails
    /\ tail = invocation
    /\ pc = "expand"
    /\ emitted = NotEmitted
    /\ val = NoValue
    /\ canon = NoValue
    /\ res = NoRes
    /\ try = NoTry

\* an invocation with any two distinct identifiers as its variants
InitExpand ==
    /\ family \in Families
    /\ variants \in AnyPairs
    /\ invocation \in Tails
    /\ tail = invocation
    /\ pc = "expand"
    /\ emitted = NotEmitted
    /\ val = NoValue
    /\ canon = NoValue
    /\ res = NoRes
    /\ try = NoTry

\* a rule that re-invokes the macro with a new argument tail
Rewrite(fam, matches, newTail) ==
    /\ pc = "expand"
    /\ family = fam
    /\ matches
    /\ tail' = newTail
    /\ UNCHANGED <<family, variants, invocation, pc, emitted, val, canon, res, try>>

\* the rule that emits the declarations
Emit(fam, matches, out) ==
    /\ pc = "expand"
    /\ family = fam
    /\ matches
    /\ pc' = "emitted"
    /\ emitted' = out
    /\ UNCHANGED <<family, variants, invocation, tail, val, canon, res, try>>

\* ---------------------------------------------------- alias_option! rules
OptionRule1 == Rewrite("option", IsBare(tail), <<List(DefaultTraits)>>)
\* faulty variant of OptionRule2: the supplied list is dropped
OptionRule2DropsList == Rewrite("option", IsTraits(tail), <<List(DefaultTraits)>>)

OptionRule2 == Rewrite("option", IsTraits(tail), <<List(tail[2].v)>>)
OptionRule3 == Rewrite("option", IsTry(tail), <<List(DefaultTraits), ImplementTry>>)
\* faulty variant of OptionRule4: the flag is not passed on
OptionRule4DropsFlag == Rewrite("option", IsTraitsTry(tail), <<List(tail[2].v)>>)

OptionRule4 == Rewrite("option", IsTraitsTry(tail), <<List(tail[2].v), ImplementTry>>)
OptionRule5 == Rewrite("option", IsList(tail), <<List(tail[1].v), Comma>>)
OptionRule6 == Emit("option", IsListFlag(tail), OptionEmitted(tail))

\* ---------------------------------------------------- alias_result! rules
ResultRule1 == Rewrite("result", IsBare(tail), <<List(DefaultTraits)>>)
ResultRule2 == Rewrite("result", IsTraits(tail), <<List(tail[2].v)>>)
ResultRule3 == Rewrite("result", IsTry(tail), <<List(DefaultTraits), ImplementTry>>)
ResultRule4 == Rewrite("result", IsTraitsTry(tail), <<List(tail[2].v), ImplementTry>>)
ResultRule5 == Rewrite("result", IsList(tail), <<List(tail[1].v), Comma>>)
ResultRule6 == Emit("result", IsListFlag(tail), ResultEmitted(tail))

\* ---------------------------------------------------- alias_either! rules
\* faulty variant of EitherRule1: a shorter default list
EitherRule1ShortDefault ==
    Rewrite("either", IsBare(tail), <<List(<<"Debug", "Clone", "PartialEq">>)>>)

EitherRule1 == Rewrite("either", IsBare(tail), <<List(DefaultTraits)>>)
EitherRule2 == Rewrite("either", IsTraits(tail), <<List(tail[2].v)>>)
EitherRule3 == Emit("either", IsList(tail), EitherEmitted(tail))

\* no rule of the invoked macro matches the arguments: the expansion fails
RuleMatches(fam, t) ==
    IF fam = "either"
    THEN IsBare(t) \/ IsTraits(t) \/ IsList(t)
    ELSE IsBare(t) \/ IsTraits(t) \/ IsTry(t) \/ IsTraitsTry(t)
         \/ IsList(t) \/ IsListFlag(t)

NoRuleMatches ==
    /\ pc = "expand"
    /\ ~RuleMatches(family, tail)
    /\ pc' = "rejected"
    /\ UNCHANGED <<family, variants, invocation, tail, emitted, val, canon, res, try>>

Expand ==
    \/ OptionRule1 \/ OptionRule2 \/ OptionRule3 \/ OptionRule4 \/ OptionRule5 \/ OptionRule6
    \/ ResultRule1 \/ ResultRule2 \/ ResultRule3 \/ ResultRule4 \/ ResultRule5 \/ ResultRule6
    \/ EitherRule1 \/ EitherRule2 \/ EitherRule3
    \/ NoRuleMatches

\* ------------------------------------------------------------ run-time values
\* a value of an enum: the variant it is tagged with and the payload the
\* variant carries (<<>> for a unit variant)
Variant(tag, payload) == [tag |-> tag, payload |-> payload]

\* std's Option and Result
CSome == <<"S", "o", "m", "e">>
CNone == <<"N", "o", "n", "e">>
COk == <<"O", "k">>
CErr == <<"E", "r", "r">>

Some(v) == Variant(CSome, <<v>>)
None == Variant(CNone, <<>>)
Ok(v) == Variant(COk, <<v>>)
Err(e) == Variant(CErr, <<e>>)

Options == {None} \cup {Some(v) : v \in Payloads}
Results == {Ok(v) : v \in Payloads} \cup {Err(e) : e \in Payloads}

\* the values of the generated type
Values ==
    IF family = "option"
    THEN {Variant(variants[2], <<>>)} \cup {Variant(variants[1], <<v>>) : v \in Payloads}
    ELSE {Variant(variants[i], <<v>>) : i \in {1, 2}, v \in Payloads}

\* closures passed to map, map_err and unwrap_or_else
Fns == {"id", "succ", "zero"}

Apply(f, v) ==
    CASE f = "id" -> v
      [] f = "succ" -> (v + 1) % (MaxPayload + 1)
      [] f = "zero" -> 0

\* closures passed to is_<some>_and / is_<none>_or: membership of the payload
\* in a set, or its negation
Preds == [set : SUBSET Payloads, neg : BOOLEAN]

Holds(p, v) == IF p.neg THEN v \notin p.set ELSE v \in p.set

Negated(p) == [p EXCEPT !.neg = ~p.neg]

\* what a call returns: a value, or the panic it ends in
Ret(v) == [kind |-> "ret", v |-> v]
Panic(m) == [kind |-> "panic", msg |-> m]

\* the backquote character of the panic messages (written "'" here)
Tick == <<"'">>

\* ------------------------------------------------- alias_option! methods
OptionIsNone(x) == x.tag = variants[2]

OptionIsSome(x) == x.tag = variants[1]

OptionIsSomeAnd(x, p) == IF x.tag = variants[1] THEN Holds(p, x.payload[1]) ELSE FALSE

\* faulty variant of OptionIsNoneOr: the empty variant answers false
OptionIsNoneOrFalseOnNone(x, p) == IF x.tag = variants[2] THEN FALSE ELSE Holds(p, x.payload[1])

OptionIsNoneOr(x, p) == IF x.tag = variants[2] THEN TRUE ELSE Holds(p, x.payload[1])

OptionAsSome(x) == IF x.tag = variants[1] THEN Some(x.payload[1]) ELSE None

OptionAsSomeMut(x) == IF x.tag = variants[1] THEN Some(x.payload[1]) ELSE None

OptionMap(x, f) ==
    IF x.tag = variants[1]
    THEN Variant(variants[1], <<Apply(f, x.payload[1])>>)
    ELSE Variant(variants[2], <<>>)

\* faulty variant of OptionUnwrapMsg: stringify!($some_variant)
OptionUnwrapMsgNamesSome ==
    <<"c", "a", "l", "l", "e", "d", " ", "'", "u", "n", "w", "r", "a", "p", "(", ")", "'",
      " ", "o", "n", " ", "a", " ", "'">> \o variants[1] \o Tick

OptionUnwrapMsg ==
    <<"c", "a", "l", "l", "e", "d", " ", "'", "u", "n", "w", "r", "a", "p", "(", ")", "'",
      " ", "o", "n", " ", "a", " ", "'">> \o variants[2] \o Tick

OptionUnwrap(x) == IF x.tag = variants[1] THEN Ret(x.payload[1]) ELSE Panic(OptionUnwrapMsg)

\* faulty variant of OptionUnwrapOr: the payload is ignored
OptionUnwrapOrAlwaysDefault(x, default) == default

OptionUnwrapOr(x, default) == IF x.tag = variants[1] THEN x.payload[1] ELSE default

OptionUnwrapOrElse(x, d) == IF x.tag = variants[1] THEN x.payload[1] ELSE d

OptionFrom(opt) ==
    IF opt.tag = CSome THEN Variant(variants[1], <<opt.payload[1]>>) ELSE Variant(variants[2], <<>>)

OptionInto(x) == IF x.tag = variants[1] THEN Some(x.payload[1]) ELSE None

\* ------------------------------------------------- alias_result! methods
ResultIsOk(x) == x.tag = variants[1]

ResultIsErr(x) == x.tag = variants[2]

ResultAsOk(x) == IF x.tag = variants[1] THEN Some(x.payload[1]) ELSE None

ResultAsOkMut(x) == IF x.tag = variants[1] THEN Some(x.payload[1]) ELSE None

ResultAsErr(x) == IF x.tag = variants[2] THEN Some(x.payload[1]) ELSE None

ResultAsErrMut(x) == IF x.tag = variants[2] THEN Some(x.payload[1]) ELSE None

ResultMap(x, f) ==
    IF x.tag = variants[1]
    THEN Variant(variants[1], <<Apply(f, x.payload[1])>>)
    ELSE Variant(variants[2], <<x.payload[1]>>)

ResultMapErr(x, op) ==
    IF x.tag = variants[1]
    THEN Variant(variants[1], <<x.payload[1]>>)
    ELSE Variant(variants[2], <<Apply(op, x.payload[1])>>)

ResultUnwrapMsg ==
    <<"c", "a", "l", "l", "e", "d", " ", "'", "u", "n", "w", "r", "a", "p", "(", ")", "'",
      " ", "o", "n", " ", "a", "n", " ", "'">> \o variants[2] \o Tick

ResultUnwrap(x) == IF x.tag = variants[1] THEN Ret(x.payload[1]) ELSE Panic(ResultUnwrapMsg)

ResultUnwrapOr(x, default) == IF x.tag = variants[1] THEN x.payload[1] ELSE default

ResultUnwrapOrElse(x, op) == IF x.tag = variants[1] THEN x.payload[1] ELSE Apply(op, x.payload[1])

\* faulty variant of ResultFrom: Err is wrapped in the success variant
ResultFromErrAsOk(result) == Variant(variants[1], <<result.payload[1]>>)

ResultFrom(result) ==
    IF result.tag = COk
    THEN Variant(variants[1], <<result.payload[1]>>)
    ELSE Variant(variants[2], <<result.payload[1]>>)

ResultInto(x) == IF x.tag = variants[1] THEN Ok(x.payload[1]) ELSE Err(x.payload[1])

\* ------------------------------------------------- alias_either! methods
EitherIsLeft(x) == x.tag = variants[1]

EitherIsRight(x) == x.tag = variants[2]

EitherAsLeft(x) == IF x.tag = variants[1] THEN Some(x.payload[1]) ELSE None

EitherAsLeftMut(x) == IF x.tag = variants[1] THEN Some(x.payload[1]) ELSE None

EitherAsRight(x) == IF x.tag = variants[2] THEN Some(x.payload[1]) ELSE None

\* faulty variant of EitherAsRightMut: present whatever the tag is
EitherAsRightMutAnyTag(x) == Some(x.payload[1])

EitherAsRightMut(x) == IF x.tag = variants[2] THEN Some(x.payload[1]) ELSE None

EitherMapLeft(x, f) ==
    IF x.tag = variants[1]
    THEN Variant(variants[1], <<Apply(f, x.payload[1])>>)
    ELSE Variant(variants[2], <<x.payload[1]>>)

\* faulty variant of EitherMapRight: f is applied to either payload
EitherMapRightMapsBoth(x, f) == Variant(x.tag, <<Apply(f, x.payload[1])>>)

EitherMapRight(x, f) ==
    IF x.tag = variants[1]
    THEN Variant(variants[1], <<x.payload[1]>>)
    ELSE Variant(variants[2], <<Apply(f, x.payload[1])>>)

\* "called `unwrap_{}()` on a `{}`" with the lower-cased requested variant
\* and the variant found
EitherUnwrapMsg(requested, found) ==
    <<"c", "a", "l", "l", "e", "d", " ", "'", "u", "n", "w", "r", "a", "p", "_">>
    \o Lower(requested)
    \o <<"(", ")", "'", " ", "o", "n", " ", "a", " ", "'">> \o found \o Tick

EitherUnwrapLeft(x) ==
    IF x.tag = variants[1]
    THEN Ret(x.payload[1])
    ELSE Panic(EitherUnwrapMsg(variants[1], variants[2]))

EitherUnwrapRight(x) ==
    IF x.tag = variants[2]
    THEN Ret(x.payload[1])
    ELSE Panic(EitherUnwrapMsg(variants[2], variants[1]))

\* ------------------------------------------------------- Try protocol
\* std::ops::ControlFlow
Continue(v) == [flow |-> "Continue", out |-> <<v>>, residual |-> NoValue]
Break(r) == [flow |-> "Break", out |-> <<>>, residual |-> r]

OptionFromOutput(output) == Variant(variants[1], <<output>>)

OptionBranch(x) ==
    IF x.tag = variants[1] THEN Continue(x.payload[1]) ELSE Break(Variant(variants[2], <<>>))

OptionFromResidual(r) == Variant(variants[2], <<>>)

ResultFromOutput(output) == Variant(variants[1], <<output>>)

\* faulty variant of ResultBranch: the residual carries a default, not e
ResultBranchDropsPayload(x) ==
    IF x.tag = variants[1]
    THEN Continue(x.payload[1])
    ELSE Break(Variant(variants[2], <<0>>))

ResultBranch(x) ==
    IF x.tag = variants[1]
    THEN Continue(x.payload[1])
    ELSE Break(Variant(variants[2], <<x.payload[1]>>))

Unreachable == <<"u", "n", "r", "e", "a", "c", "h", "a", "b", "l", "e">>

\* faulty variant of ResultFromResidual: the match arm names $ok_variant
ResultFromResidualWrongArm(residual) ==
    IF residual.tag = variants[1]
    THEN Ret(Variant(variants[1], <<residual.payload[1]>>))
    ELSE Panic(Unreachable)

ResultFromResidual(residual) ==
    IF residual.tag = variants[2]
    THEN Ret(Variant(variants[2], <<residual.payload[1]>>))
    ELSE Panic(Unreachable)

\* ---------------------------------------------------------------- calls
\* the generated type exists and no try_example call is in progress
Ready(fam) == pc = "emitted" /\ family = fam /\ try.pc = "idle"

\* a method call on the value held
Call(fam) == Ready(fam) /\ val # NoValue

\* what the previous call was, for a conversion that follows a conversion
Prev ==
    CASE res.op = "into" -> [op |-> "into", self |-> res.self]
      [] res.op = "from" -> [op |-> "from", arg |-> res.arg]
      [] OTHER -> [op |-> res.op]

\* `$type_name::$variant(v)` or `$type_name::$none_variant` written by the caller
Construct(v) ==
    /\ pc = "emitted" /\ try.pc = "idle"
    /\ val' = v
    /\ canon' = NoValue
    /\ res' = [op |-> "construct"]
    /\ UNCHANGED <<family, variants, invocation, tail, pc, emitted, try>>

\* an Option or Result written by the caller
MakeCanonical(c) ==
    /\ pc = "emitted" /\ try.pc = "idle"
    /\ canon' = c
    /\ val' = NoValue
    /\ res' = [op |-> "canonical"]
    /\ UNCHANGED <<family, variants, invocation, tail, pc, emitted, try>>

\* `.into()` from the canonical type: the canonical value is moved
ConvertFrom(fam, out) ==
    /\ Ready(fam) /\ canon # NoValue
    /\ "From<Canonical>" \in emitted.impls
    /\ val' = out
    /\ canon' = NoValue
    /\ res' = [op |-> "from", arg |-> canon, prev |-> Prev]
    /\ UNCHANGED <<family, variants, invocation, tail, pc, emitted, try>>

\* `.into()` to the canonical type: the generated value is moved
ConvertInto(fam, out) ==
    /\ Call(fam)
    /\ "Into<Canonical>" \in emitted.impls
    /\ canon' = out
    /\ val' = NoValue
    /\ res' = [op |-> "into", self |-> val, prev |-> Prev]
    /\ UNCHANGED <<family, variants, invocation, tail, pc, emitted, try>>

\* a `&self` method: the value stays
Borrow(fam, r) ==
    /\ Call(fam)
    /\ res' = r
    /\ UNCHANGED <<family, variants, invocation, tail, pc, emitted, val, canon, try>>

\* `if let Some(r) = x.as_<v>_mut() { *r = w }`
WriteThrough(fam, which, view, w) ==
    /\ Call(fam)
    /\ val' = IF view.tag = CSome THEN [val EXCEPT !.payload = <<w>>] ELSE val
    /\ res' = [op |-> "as_mut", which |-> which, self |-> val, view |-> view, w |-> w]
    /\ UNCHANGED <<family, variants, invocation, tail, pc, emitted, canon, try>>

\* `x = x.map(f)`
Rebind(fam, which, f, out) ==
    /\ Call(fam)
    /\ val' = out
    /\ res' = [op |-> "map", which |-> which, self |-> val, f |-> f]
    /\ UNCHANGED <<family, variants, invocation, tail, pc, emitted, canon, try>>

\* a `self` method that returns a payload or panics: the value is moved
Consume(fam, r) ==
    /\ Call(fam)
    /\ val' = NoValue
    /\ res' = r
    /\ UNCHANGED <<family, variants, invocation, tail, pc, emitted, canon, try>>

\* ----------------------------------------------- calls on an alias_option! type
CallOptionFrom == ConvertFrom("option", OptionFrom(canon))

CallOptionInto == ConvertInto("option", OptionInto(val))

CallOptionQuery(p) ==
    Borrow("option",
           [op |-> "query", self |-> val, p |-> p,
            is |-> <<OptionIsSome(val), OptionIsNone(val)>>,
            as |-> <<OptionAsSome(val)>>,
            is_some_and |-> OptionIsSomeAnd(val, p),
            is_none_or |-> OptionIsNoneOr(val, p),
            is_some_and_not |-> OptionIsSomeAnd(val, Negated(p))])

CallOptionAsSomeMut(w) == WriteThrough("option", 1, OptionAsSomeMut(val), w)

CallOptionMap(f) == Rebind("option", 1, f, OptionMap(val, f))

CallOptionUnwrap ==
    Consume("option", [op |-> "unwrap", which |-> 1, self |-> val, out |-> OptionUnwrap(val)])

CallOptionUnwrapOr(d) ==
    Consume("option", [op |-> "unwrap_or", self |-> val, default |-> d,
                       out |-> OptionUnwrapOr(val, d)])

CallOptionUnwrapOrElse(d) ==
    Consume("option", [op |-> "unwrap_or_else", self |-> val, default |-> d,
                       out |-> OptionUnwrapOrElse(val, d)])

\* ----------------------------------------------- calls on an alias_result! type
CallResultFrom == ConvertFrom("result", ResultFrom(canon))

CallResultInto == ConvertInto("result", ResultInto(val))

CallResultQuery ==
    Borrow("result",
           [op |-> "query", self |-> val,
            is |-> <<ResultIsOk(val), ResultIsErr(val)>>,
            as |-> <<ResultAsOk(val), ResultAsErr(val)>>])

CallResultAsOkMut(w) == WriteThrough("result", 1, ResultAsOkMut(val), w)

CallResultAsErrMut(w) == WriteThrough("result", 2, ResultAsErrMut(val), w)

CallResultMap(f) == Rebind("result", 1, f, ResultMap(val, f))

CallResultMapErr(f) == Rebind("result", 2, f, ResultMapErr(val, f))

CallResultUnwrap ==
    Consume("result", [op |-> "unwrap", which |-> 1, self |-> val, out |-> ResultUnwrap(val)])

CallResultUnwrapOr(d) ==
    Consume("result", [op |-> "unwrap_or", self |-> val, default |-> d,
                       out |-> ResultUnwrapOr(val, d)])

CallResultUnwrapOrElse(f) ==
    Consume("result", [op |-> "unwrap_or_else", self |-> val, f |-> f,
                       out |-> ResultUnwrapOrElse(val, f)])

\* ----------------------------------------------- calls on an alias_either! type
CallEitherQuery ==
    Borrow("either",
           [op |-> "query", self |-> val,
            is |-> <<EitherIsLeft(val), EitherIsRight(val)>>,
            as |-> <<EitherAsLeft(val), EitherAsRight(val)>>])

CallEitherAsLeftMut(w) == WriteThrough("either", 1, EitherAsLeftMut(val), w)

CallEitherAsRightMut(w) == WriteThrough("either", 2, EitherAsRightMut(val), w)

CallEitherMapLeft(f) == Rebind("either", 1, f, EitherMapLeft(val, f))

CallEitherMapRight(f) == Rebind("either", 2, f, EitherMapRight(val, f))

CallEitherUnwrapLeft ==
    Consume("either", [op |-> "unwrap", which |-> 1, self |-> val, out |-> EitherUnwrapLeft(val)])

CallEitherUnwrapRight ==
    Consume("either", [op |-> "unwrap", which |-> 2, self |-> val, out |-> EitherUnwrapRight(val)])

\* the values of the residual type $type_name<Infallible, E>: the success
\* variant carries an Infallible and has no value
Residuals == {Variant(variants[2], <<e>>) : e \in Payloads}

\* the residual of the branch call just made, if it broke
PendingResiduals ==
    IF res.op = "branch" /\ res.cf.flow = "Break" THEN {res.cf.residual} ELSE {}

\* Try::branch called on the value held
CallResultBranch ==
    /\ "Try" \in emitted.impls
    /\ Consume("result", [op |-> "branch", self |-> val, cf |-> ResultBranch(val)])

\* FromResidual::from_residual called with a residual
CallResultFromResidual(r) ==
    /\ Ready("result")
    /\ "FromResidual" \in emitted.impls
    /\ val' = IF ResultFromResidual(r).kind = "ret" THEN ResultFromResidual(r).v ELSE NoValue
    /\ canon' = NoValue
    /\ res' = [op |-> "from_residual", residual |-> r, out |-> ResultFromResidual(r)]
    /\ UNCHANGED <<family, variants, invocation, tail, pc, emitted, try>>

\* Try::from_output called with a payload
CallResultFromOutput(o) ==
    /\ Ready("result")
    /\ "Try" \in emitted.impls
    /\ val' = ResultFromOutput(o)
    /\ canon' = NoValue
    /\ res' = [op |-> "from_output", output |-> o]
    /\ UNCHANGED <<family, variants, invocation, tail, pc, emitted, try>>

\* ------------------------------------------------------------ try_example
\* fn try_example(val1, val2) { let x = val1?; let y = val2?; V(x op y) }
\* where `e?` is  match branch(e) { Continue(v) => v,
\*                                  Break(r) => return from_residual(r) }
NoFlow == [flow |-> "none", out |-> <<>>, residual |-> NoValue]
NoRet == [kind |-> "none"]

TryStart(a, b) ==
    /\ pc = "emitted" /\ try.pc = "idle"
    /\ "Try" \in emitted.impls
    /\ try' = [pc |-> "q1", in1 |-> a, in2 |-> b, x |-> <<>>, y |-> <<>>,
               cf |-> NoFlow, ret |-> NoRet]
    /\ val' = NoValue
    /\ canon' = NoValue
    /\ res' = [op |-> "try_example"]
    /\ UNCHANGED <<family, variants, invocation, tail, pc, emitted>>

\* the branch call of the first or the second `?`
TryBranch(fam, cf) ==
    /\ pc = "emitted" /\ family = fam
    /\ try.pc \in {"q1", "q2"}
    /\ try' = [try EXCEPT
                 !.cf = cf,
                 !.x = IF try.pc = "q1" /\ cf.flow = "Continue" THEN cf.out ELSE @,
                 !.y = IF try.pc = "q2" /\ cf.flow = "Continue" THEN cf.out ELSE @,
                 !.pc = IF cf.flow = "Break" THEN "residual"
                        ELSE IF try.pc = "q1" THEN "q2" ELSE "output"]
    /\ UNCHANGED <<family, variants, invocation, tail, pc, emitted, val, canon, res>>

\* the from_residual call of the `?` that broke
TryFromResidual(fam, r) ==
    /\ pc = "emitted" /\ family = fam
    /\ try.pc = "residual"
    /\ try' = [try EXCEPT !.ret = r, !.pc = "done"]
    /\ UNCHANGED <<family, variants, invocation, tail, pc, emitted, val, canon, res>>

\* the value built from both payloads
TryFromOutput(fam, v) ==
    /\ pc = "emitted" /\ family = fam
    /\ try.pc = "output"
    /\ try' = [try EXCEPT !.ret = Ret(v), !.pc = "done"]
    /\ UNCHANGED <<family, variants, invocation, tail, pc, emitted, val, canon, res>>

TryInput == IF try.pc = "q1" THEN try.in1 ELSE try.in2

OptionTryBranch == TryBranch("option", OptionBranch(TryInput))

OptionTryFromResidual == TryFromResidual("option", Ret(OptionFromResidual(try.cf.residual)))

OptionTryFromOutput == TryFromOutput("option", OptionFromOutput(try.x[1] + try.y[1]))

ResultTryBranch == TryBranch("result", ResultBranch(TryInput))

ResultTryFromResidual == TryFromResidual("result", ResultFromResidual(try.cf.residual))

ResultTryFromOutput == TryFromOutput("result", ResultFromOutput(try.x[1] * try.y[1]))

\* try_example returns to its caller, which holds the value returned
TryReturn ==
    /\ pc = "emitted"
    /\ try.pc = "done"
    /\ try' = NoTry
    /\ val' = IF try.ret.kind = "ret" THEN try.ret.v ELSE NoValue
    /\ res' = [op |-> "try_example", in1 |-> try.in1, in2 |-> try.in2, ret |-> try.ret]
    /\ UNCHANGED <<family, variants, invocation, tail, pc, emitted, canon>>

\* ------------------------------------------------------------------- Next
OptionCalls ==
    \/ CallOptionFrom
    \/ CallOptionInto
    \/ \E p \in Preds : CallOptionQuery(p)
    \/ \E w \in Payloads : CallOptionAsSomeMut(w)
    \/ \E f \in Fns : CallOptionMap(f)
    \/ CallOptionUnwrap
    \/ \E d \in Payloads : CallOptionUnwrapOr(d)
    \/ \E d \in Payloads : CallOptionUnwrapOrElse(d)
    \/ OptionTryBranch
    \/ OptionTryFromResidual
    \/ OptionTryFromOutput

ResultCalls ==
    \/ CallResultFrom
    \/ CallResultInto
    \/ CallResultQuery
    \/ \E w \in Payloads : CallResultAsOkMut(w)
    \/ \E w \in Payloads : CallResultAsErrMut(w)
    \/ \E f \in Fns : CallResultMap(f)
    \/ \E f \in Fns : CallResultMapErr(f)
    \/ CallResultUnwrap
    \/ \E d \in Payloads : CallResultUnwrapOr(d)
    \/ \E f \in Fns : CallResultUnwrapOrElse(f)
    \/ ResultTryBranch
    \/ ResultTryFromResidual
    \/ ResultTryFromOutput
    \/ CallResultBranch
    \/ \E r \in Residuals \cup PendingResiduals : CallResultFromResidual(r)
    \/ \E o \in Payloads : CallResultFromOutput(o)

EitherCalls ==
    \/ CallEitherQuery
    \/ \E w \in Payloads : CallEitherAsLeftMut(w)
    \/ \E w \in Payloads : CallEitherAsRightMut(w)
    \/ \E f \in Fns : CallEitherMapLeft(f)
    \/ \E f \in Fns : CallEitherMapRight(f)
    \/ CallEitherUnwrapLeft
    \/ CallEitherUnwrapRight

Next ==
    \/ Expand
    \/ \E v \in Values : Construct(v)
    \/ \E c \in Options : family = "option" /\ MakeCanonical(c)
    \/ \E c \in Results : family = "result" /\ MakeCanonical(c)
    \/ \E a \in Values, b \in Values : TryStart(a, b)
    \/ TryReturn
    \/ OptionCalls
    \/ ResultCalls
    \/ EitherCalls

Spec == Init /\ [][Next]_vars

\* the expansion of one invocation alone; the compiler expands a macro
\* invocation until no invocation is left
SpecExpand == InitExpand /\ [][Expand]_vars /\ WF_vars(Expand)

\* ======================================================================
\* Properties
\* ======================================================================

\* index of the variant a generated value is tagged with
Tagged(x) == IF x.tag = variants[1] THEN 1 ELSE 2

\* C1: converting a canonical value to the generated type and back, or a
\* generated value to the canonical type and back, gives the value started
\* from; Some/Ok become the first variant and None/Err the second, with the
\* payload unchanged.
ConversionRoundTrip ==
    /\ (res.op = "from" /\ res.prev.op = "into") => val = res.prev.self
    /\ (res.op = "into" /\ res.prev.op = "from") => canon = res.prev.arg
    /\ res.op = "from" =>
          /\ val.payload = res.arg.payload
          /\ (val.tag = variants[1]) = (res.arg.tag \in {CSome, COk})
          /\ (val.tag = variants[2]) = (res.arg.tag \in {CNone, CErr})
    /\ res.op = "into" =>
          /\ canon.payload = res.self.payload
          /\ canon.tag = IF family = "option"
                         THEN (IF res.self.tag = variants[1] THEN CSome ELSE CNone)
                         ELSE (IF res.self.tag = variants[1] THEN COk ELSE CErr)

ConversionRoundTripWitness ==
    /\ family = "result"
    /\ res.op = "from" /\ res.prev.op = "into"
    /\ res.arg = Err(1)
    /\ val = Variant(variants[2], <<1>>)

\* C2: a query of a value answers true to exactly one is_ predicate, the
\* one of the variant the value is tagged with; the accessor of that variant
\* is Some(payload) and every other accessor is None; a write through the
\* as_<v>_mut accessor of the tagged variant replaces the payload, and the
\* as_<v>_mut accessor of the other variant is None and leaves the value.
PredicateAccessorConsistency ==
    /\ res.op = "query" =>
          /\ res.is[1] # res.is[2]
          /\ res.is[Tagged(res.self)]
          /\ \A i \in DOMAIN res.as :
                res.as[i] = IF i = Tagged(res.self) THEN Some(res.self.payload[1]) ELSE None
    /\ res.op = "as_mut" =>
          IF res.which = Tagged(res.self)
          THEN /\ res.view = Some(res.self.payload[1])
               /\ val = Variant(res.self.tag, <<res.w>>)
          ELSE /\ res.view = None
               /\ val = res.self

PredicateAccessorWitness ==
    /\ family = "either"
    /\ res.op = "as_mut" /\ res.which = 2
    /\ res.self = Variant(variants[2], <<0>>)
    /\ val = Variant(variants[2], <<1>>)

\* the message names the identifier, letter case aside
Names(msg, id) == Contains(Lower(msg), Lower(id))

\* the variant an unwrap call asks for, and the other one
Requested(r) == variants[r.which]
Present(r) == variants[3 - r.which]

Combined(a, b) ==
    IF family = "option" THEN a.payload[1] + b.payload[1] ELSE a.payload[1] * b.payload[1]

Forward(x) == x.tag = variants[1]
Stop(x) == x.tag = variants[2]

\* C4 (as stated): try_example returns the forward variant of the combined
\* payloads when both inputs are forward-tagged, and returns a stop-tagged
\* input unchanged whether it is the first or the second input, whatever
\* the other input is.
ShortCircuitAnyPosition ==
    res.op = "try_example" /\ "ret" \in DOMAIN res =>
        /\ Forward(res.in1) /\ Forward(res.in2) =>
              res.ret = Ret(Variant(variants[1], <<Combined(res.in1, res.in2)>>))
        /\ Stop(res.in1) => res.ret = Ret(res.in1)
        /\ Stop(res.in2) => res.ret = Ret(res.in2)

\* C4 (amended): try_example returns the forward variant of the combined
\* payloads when both inputs are forward-tagged; otherwise it returns the
\* first stop-tagged input unchanged: the first input when that is
\* stop-tagged, whatever the second is, and the second input when the first
\* is forward-tagged.
ShortCircuitFirstStop ==
    res.op = "try_example" /\ "ret" \in DOMAIN res =>
        /\ Forward(res.in1) /\ Forward(res.in2) =>
              res.ret = Ret(Variant(variants[1], <<Combined(res.in1, res.in2)>>))
        /\ Stop(res.in1) => res.ret = Ret(res.in1)
        /\ Forward(res.in1) /\ Stop(res.in2) => res.ret = Ret(res.in2)

ShortCircuitWitness ==
    /\ family = "result"
    /\ res.op = "try_example" /\ "ret" \in DOMAIN res
    /\ res.in1 = Variant(variants[2], <<1>>)
    /\ res.in2 = Variant(variants[2], <<2>>)
    /\ val = res.in1

\* C5: unwrap_or(d) returns the payload of a forward-tagged value and d for a
\* stop-tagged value, for the Nullable and the Fallible shape.
UnwrapOrFallback ==
    res.op = "unwrap_or" =>
        res.out = IF Forward(res.self) THEN res.self.payload[1] ELSE res.default

UnwrapOrWitness ==
    /\ family = "result"
    /\ res.op = "unwrap_or"
    /\ res.self = Variant(variants[2], <<2>>)
    /\ res.default = 0
    /\ res.out = 0

\* C6: a map for variant V keeps the tag of its input; the payload becomes
\* f(payload) when the input is tagged V and stays as it was otherwise;
\* mapping with the identity gives back the input.
MapPreservesTag ==
    res.op = "map" =>
        /\ val.tag = res.self.tag
        /\ val.payload = IF res.which = Tagged(res.self)
                         THEN <<Apply(res.f, res.self.payload[1])>>
                         ELSE res.self.payload
        /\ res.f = "id" => val = res.self

MapWitness ==
    /\ family = "either"
    /\ res.op = "map" /\ res.which = 2 /\ res.f = "succ"
    /\ res.self = Variant(variants[2], <<1>>)
    /\ val = Variant(variants[2], <<2>>)

\* C7: is_<some>_and(p) holds exactly when the value is payload-tagged and p
\* accepts the payload; is_<none>_or(p) holds exactly when the value is
\* empty-tagged or p accepts the payload; is_<none>_or(p) is the negation of
\* is_<some>_and(not p).
ConditionalCombinators ==
    res.op = "query" /\ family = "option" =>
        /\ res.is_some_and = (Forward(res.self) /\ Holds(res.p, res.self.payload[1]))
        /\ res.is_none_or = (Stop(res.self) \/ Holds(res.p, res.self.payload[1]))
        /\ res.is_none_or = ~res.is_some_and_not

ConditionalCombinatorsWitness ==
    /\ family = "option"
    /\ res.op = "query"
    /\ res.self = Variant(variants[1], <<1>>)
    /\ res.p = [set |-> {0, 2}, neg |-> FALSE]
    /\ ~res.is_none_or
    /\ res.is_some_and_not

\* C8 (as stated): every emitter, the Either emitter included, emits the two
\* conversions between the generated type and its canonical counterpart.
AllFamiliesEmitConversions ==
    pc = "emitted" => ConversionImpls \subseteq emitted.impls

\* C8 (amended): the Nullable and the Fallible emitter emit the two
\* conversions between the generated type and Option / Result; the Either
\* emitter emits no conversion, so a value of an Either type is never
\* obtained from, or turned into, a canonical value.
ConversionsOnlyWithCanonical ==
    /\ pc = "emitted" /\ family \in {"option", "result"} =>
          ConversionImpls \subseteq emitted.impls
    /\ pc = "emitted" /\ family = "either" =>
          /\ emitted.impls \cap ConversionImpls = {}
          /\ canon = NoValue
          /\ res.op \notin {"from", "into"}

ConversionsWitness ==
    /\ pc = "emitted"
    /\ family = "either"
    /\ val # NoValue
    /\ res.op = "query"

\* the capability a derivable trait provides
Capability(trait) ==
    CASE trait \in {"PartialEq", "Eq"} -> "equality"
      [] trait \in {"PartialOrd", "Ord"} -> "ordering"
      [] trait = "Hash" -> "hashing"
      [] trait \in {"Clone", "Copy"} -> "duplication"
      [] trait = "Debug" -> "debug formatting"
      [] OTHER -> trait

Capabilities(list) == {Capability(list[i]) : i \in DOMAIN list}

\* the capability list the invocation supplies, <<>> when it supplies none
SuppliesList(inv) == \E i \in DOMAIN inv : inv[i].k = "list"
Supplied(inv) == (CHOOSE t \in {inv[i] : i \in DOMAIN inv} : t.k = "list").v

\* C9: an invocation without a capability list gets the default derive
\* list, whose capabilities are exactly equality, ordering, hashing,
\* duplication and debug formatting; the list is the same in the three
\* families and with or without the implement_try flag.
DefaultCapabilities ==
    pc = "emitted" /\ ~SuppliesList(invocation) =>
        /\ emitted.derive = DefaultTraits
        /\ Capabilities(emitted.derive) =
              {"equality", "ordering", "hashing", "duplication", "debug formatting"}

DefaultCapabilitiesWitness ==
    /\ pc = "emitted"
    /\ family = "result"
    /\ invocation = <<ImplementTry>>
    /\ "Try" \in emitted.impls
    /\ emitted.derive = DefaultTraits

\* the invocation with its capability list, if it has one, replaced by l
WithList(inv, l) == [i \in DOMAIN inv |-> IF inv[i].k = "list" THEN List(l) ELSE inv[i]]

\* ordering or hashing without equality
Inconsistent(list) ==
    /\ Capabilities(list) \cap {"ordering", "hashing"} # {}
    /\ "equality" \notin Capabilities(list)

Broke == IF try.x = <<>> THEN try.in1 ELSE try.in2

\* C12: for an alias_result! type with Try, branch on a failure carrying e
\* gives Break with a residual carrying e, and from_residual of that
\* residual gives the failure carrying e; from_residual returns for every
\* residual branch produces, and no sequence of branch, from_residual and
\* from_output calls ends in its unreachable!() arm.
FailureCarriedUnmodified ==
    family = "result" =>
        /\ res.op = "branch" /\ Stop(res.self) =>
              /\ res.cf.flow = "Break"
              /\ res.cf.residual = Variant(variants[2], res.self.payload)
              /\ ResultFromResidual(res.cf.residual) = Ret(res.self)
        /\ res.op = "branch" /\ Forward(res.self) => res.cf.flow = "Continue"
        /\ res.op = "from_residual" =>
              /\ res.out = Ret(Variant(variants[2], res.residual.payload))
              /\ val = Variant(variants[2], res.residual.payload)
        /\ try.pc = "residual" => try.cf.residual = Variant(variants[2], Broke.payload)
        /\ try.pc = "done" => try.ret.kind = "ret"

FailureCarriedWitness ==
    /\ family = "result"
    /\ res.op = "from_residual"
    /\ res.residual = Variant(variants[2], <<2>>)
    /\ val = Variant(variants[2], <<2>>)

\* the four invocation forms: traits list absent or present, implement_try
\* absent or present
FourForms ==
    {<<>>, <<ImplementTry>>}
    \cup {<<KwTraits, List(l)>> : l \in TraitLists}
    \cup {<<KwTraits, List(l), ImplementTry>> : l \in TraitLists}

CarriesFlag(inv) == inv # <<>> /\ inv[Len(inv)] = ImplementTry

FourFormInvocation == family \in {"option", "result"} /\ invocation \in FourForms

\* C13: each of the four invocation forms of alias_option! and
\* alias_result! is never refused and reaches the emitting rule after
\* finitely many rule steps; Try and FromResidual are emitted exactly when
\* the invocation carries implement_try; and the derive list is the
\* supplied list, or the default one, with or without the flag.
FeaturesIndependent ==
    /\ [](FourFormInvocation =>
            /\ pc # "rejected"
            /\ pc = "emitted" =>
                  /\ emitted.impls \cap TryImpls =
                        IF CarriesFlag(invocation) THEN TryImpls ELSE {}
                  /\ emitted.derive = IF SuppliesList(invocation)
                                      THEN Supplied(invocation)
                                      ELSE DefaultTraits)
    /\ (FourFormInvocation ~> pc = "emitted")

FeaturesIndependentWitness ==
    /\ pc = "emitted"
    /\ family = "option"
    /\ invocation = <<KwTraits, List(<<"Hash">>), ImplementTry>>
    /\ TryImpls \subseteq emitted.impls
    /\ emitted.derive = <<"Hash">>

\* C14: the methods emitted for one type have pairwise distinct names,
\* whatever two distinct identifiers the variants are.
MethodNamesDistinct ==
    pc = "emitted" =>
        \A i, j \in DOMAIN emitted.methods :
            i # j => emitted.methods[i] # emitted.methods[j]

====
